---- MODULE Spec2Model ----
(***************************************************************************)
(* A model of Address4 (src/lib/ipv4.ts): an IPv4 address with an optional *)
(* CIDR subnet suffix, its conversions and its subnet boundary addresses.  *)
(*                                                                         *)
(* Strings are sequences of one-character strings.  A number (a JavaScript *)
(* number holding an integer, or a jsbn BigInteger) is a record            *)
(*   [nan, neg, hi, lo]   of value  (-1)^neg * (hi * 2^16 + lo),           *)
(* two 16-bit limbs, because the values reach 2^32 and the integers of TLC *)
(* stop at 2^31 - 1.  All values of the model are below 2^53, so the       *)
(* JavaScript numbers are exact.                                           *)
(***************************************************************************)
EXTENDS Integers, Sequences, FiniteSets, TLC

VARIABLES this, op, arg, ret, thrown

vars == <<this, op, arg, ret, thrown>>

(***************************************************************************)
(* src/lib/v4/constants and the defaults of the fields                     *)
(***************************************************************************)
BITS == 32

GROUPS == 4

DefaultSubnetMask == 32

DefaultSubnet == <<"/", "3", "2">>

\* the value of a field or a result that was never set
undefined == <<"undefined">>

LimbBase == 2 ^ 16

(***************************************************************************)
(* Numbers                                                                 *)
(***************************************************************************)
NaN == [nan |-> TRUE, neg |-> FALSE, hi |-> 0, lo |-> 0]

MkNum(neg, hi, lo) ==
  [nan |-> FALSE, neg |-> neg /\ (hi # 0 \/ lo # 0), hi |-> hi, lo |-> lo]

Small(k) == MkNum(FALSE, k \div LimbBase, k % LimbBase)

\* the model checker's integer of a number below 2^31
IntOf(n) == IF n.neg THEN 0 - (n.hi * LimbBase + n.lo) ELSE n.hi * LimbBase + n.lo

\* magnitude * radix + d
MulAdd(n, radix, d) ==
  LET l == n.lo * radix + d
  IN  MkNum(n.neg, n.hi * radix + (l \div LimbBase), l % LimbBase)

\* magnitude divided by d: quotient and remainder
DivMod(n, d) ==
  LET t == (n.hi % d) * LimbBase + n.lo
  IN  [q |-> MkNum(n.neg, n.hi \div d, t \div d), r |-> t % d]

MagAdd1(n) ==
  IF n.lo = LimbBase - 1 THEN MkNum(n.neg, n.hi + 1, 0)
  ELSE MkNum(n.neg, n.hi, n.lo + 1)

MagSub1(n) ==
  IF n.lo = 0 THEN MkNum(n.neg, n.hi - 1, LimbBase - 1)
  ELSE MkNum(n.neg, n.hi, n.lo - 1)

IsZero(n) == n.hi = 0 /\ n.lo = 0

\* BigInteger.add(new BigInteger('1'))
BigAdd1(n) ==
  IF n.neg THEN MagSub1(n) ELSE MagAdd1(n)

\* BigInteger.subtract(new BigInteger('1'))
BigSub1(n) ==
  IF IsZero(n) THEN MkNum(TRUE, 0, 1)
  ELSE IF n.neg THEN MagAdd1(n) ELSE MagSub1(n)

(***************************************************************************)
(* Strings                                                                 *)
(***************************************************************************)
DigitChars ==
  <<"0", "1", "2", "3", "4", "5", "6", "7", "8", "9", "a", "b", "c", "d", "e", "f">>

UpperChars == <<"A", "B", "C", "D", "E", "F">>

\* the value of a digit character, or -1
DigitVal(c) ==
  IF \E i \in 1..16 : DigitChars[i] = c
  THEN (CHOOSE i \in 1..16 : DigitChars[i] = c) - 1
  ELSE IF \E i \in 1..6 : UpperChars[i] = c
  THEN (CHOOSE i \in 1..6 : UpperChars[i] = c) + 9
  ELSE -1

IsDigit(c, radix) == DigitVal(c) >= 0 /\ DigitVal(c) < radix

Min(a, b) == IF a < b THEN a ELSE b

Max(a, b) == IF a < b THEN b ELSE a

\* String.prototype.slice with indices >= 0
slice(s, start, end) == SubSeq(s, start + 1, Min(end, Len(s)))

repeat(c, n) == [i \in 1..Max(n, 0) |-> c]

padStart(s, n, c) == repeat(c, n - Len(s)) \o s

RECURSIVE join(_, _)
join(parts, sep) ==
  IF parts = <<>> THEN <<>>
  ELSE IF Len(parts) = 1 THEN parts[1]
  ELSE parts[1] \o sep \o join(Tail(parts), sep)

\* String.prototype.split on a one-character separator
RECURSIVE split(_, _)
split(s, sep) ==
  IF \E i \in 1..Len(s) : s[i] = sep
  THEN LET i == CHOOSE k \in 1..Len(s) : s[k] = sep /\ \A j \in 1..(k - 1) : s[j] # sep
       IN  <<SubSeq(s, 1, i - 1)>> \o split(SubSeq(s, i + 1, Len(s)), sep)
  ELSE <<s>>

\* String.prototype.replace(/:/g, '')
stripColons(s) == SelectSeq(s, LAMBDA c : c # ":")

\* the length of the longest prefix of s made of digits of the radix
digitPrefix(s, radix) ==
  Cardinality({k \in 1..Len(s) : \A i \in 1..k : IsDigit(s[i], radix)})

\* s without its leading blanks
skipSpaces(s) ==
  SubSeq(s, 1 + Cardinality({k \in 1..Len(s) : \A i \in 1..k : s[i] = " "}), Len(s))

\* the digits of a limb are read directly when the radix is a power of two:
\* a limb is 16 binary or 4 hexadecimal digits
LimbDigits(radix) == IF radix = 2 THEN 16 ELSE 4

\* the value, below 2^31, of a string of digits
RECURSIVE digitsValue(_, _)
digitsValue(s, radix) ==
  IF s = <<>> THEN 0
  ELSE IF Len(s) = 1 THEN DigitVal(s[1])
  ELSE LET h == Len(s) \div 2
       IN  digitsValue(SubSeq(s, 1, h), radix) * radix ^ (Len(s) - h)
             + digitsValue(SubSeq(s, h + 1, Len(s)), radix)

RECURSIVE accumulate10(_, _)
accumulate10(s, acc) ==
  IF s = <<>> THEN acc
  ELSE accumulate10(Tail(s), MulAdd(acc, 10, DigitVal(s[1])))

\* the number a string of digits of the radix (2, 10 or 16) denotes
accumulate(s, radix) ==
  IF radix = 10 THEN accumulate10(s, MkNum(FALSE, 0, 0))
  ELSE LET k == LimbDigits(radix)
       IN  MkNum(FALSE,
                 digitsValue(SubSeq(s, 1, Len(s) - k), radix),
                 digitsValue(SubSeq(s, Max(Len(s) - k, 0) + 1, Len(s)), radix))

\* parseInt(s, radix): leading blanks, an optional sign, then the longest
\* prefix of digits; NaN when there is no digit
parseInt(s, radix) ==
  LET t == skipSpaces(s)
      neg == t # <<>> /\ t[1] = "-"
      u == IF t # <<>> /\ t[1] \in {"-", "+"} THEN Tail(t) ELSE t
      k == digitPrefix(u, radix)
  IN  IF k = 0 THEN NaN
      ELSE LET m == accumulate(SubSeq(u, 1, k), radix)
           IN  MkNum(neg, m.hi, m.lo)

\* s without its leading "0" characters, keeping the last character
stripZeros(s) ==
  SubSeq(s, 1 + Cardinality({k \in 1..(Len(s) - 1) : \A i \in 1..k : s[i] = "0"}), Len(s))

RECURSIVE magToString10(_)
magToString10(n) ==
  LET dm == DivMod(n, 10)
  IN  IF IsZero(dm.q) THEN <<DigitChars[dm.r + 1]>>
      ELSE magToString10(dm.q) \o <<DigitChars[dm.r + 1]>>

\* the digits of the magnitude of n in the radix (2, 10 or 16)
magToString(n, radix) ==
  IF radix = 10 THEN magToString10(n)
  ELSE LET k == LimbDigits(radix)
           hiLen == IF radix = 2 THEN 31 ELSE 8
           digit(limb, i, len) == DigitChars[((limb \div radix ^ (len - i)) % radix) + 1]
       IN  stripZeros([i \in 1..hiLen |-> digit(n.hi, i, hiLen)]
                        \o [i \in 1..k |-> digit(n.lo, i, k)])

\* Number.prototype.toString(radix) and BigInteger.prototype.toString(radix)
toString(n, radix) ==
  IF n.nan THEN <<"N", "a", "N">>
  ELSE IF n.neg THEN <<"-">> \o magToString(MkNum(FALSE, n.hi, n.lo), radix)
  ELSE magToString(n, radix)

\* new BigInteger(s, radix) of a string of digits
BigInteger(s, radix) == accumulate(s, radix)

\* n >>> 0: NaN is 0, the others are taken modulo 2^32
toUint32(n) ==
  LET hi == n.hi % LimbBase
  IN  IF n.nan THEN MkNum(FALSE, 0, 0)
      ELSE IF ~n.neg THEN MkNum(FALSE, hi, n.lo)
      ELSE IF n.lo = 0 THEN MkNum(FALSE, (LimbBase - hi) % LimbBase, 0)
      ELSE MkNum(FALSE, LimbBase - 1 - hi, LimbBase - n.lo)

\* sprintf('%02x', n): the number as an unsigned 32-bit integer in lowercase
\* hexadecimal, zero-padded to two characters
sprintf02x(n) == padStart(toString(toUint32(n), 16), 2, "0")

(***************************************************************************)
(* src/lib/v4/constants: the two regular expressions                       *)
(***************************************************************************)
\* RE_SUBNET_STRING.exec(address): the trailing "/<digits>", or <<>>
RE_SUBNET_STRING(address) ==
  LET ok(i) == /\ address[i] = "/"
               /\ i < Len(address)
               /\ \A j \in (i + 1)..Len(address) : IsDigit(address[j], 10)
  IN  IF \E i \in 1..Len(address) : ok(i)
      THEN LET i == CHOOSE k \in 1..Len(address) : ok(k)
           IN  SubSeq(address, i, Len(address))
      ELSE <<>>

\* one group of RE_ADDRESS: one to three decimal digits of value 0..255
IsOctetToken(t) ==
  /\ Len(t) \in 1..3
  /\ \A i \in 1..Len(t) : IsDigit(t[i], 10)
  /\ IntOf(parseInt(t, 10)) <= 255

\* address.match(RE_ADDRESS): four groups separated by periods
RE_ADDRESS(address) ==
  LET groups == split(address, ".")
  IN  Len(groups) = GROUPS /\ \A i \in 1..GROUPS : IsOctetToken(groups[i])

(***************************************************************************)
(* Address4: construction                                                  *)
(***************************************************************************)
\* the fields as they are before the constructor's body runs
FieldDefaults(address) ==
  [address |-> address,
   addressMinusSuffix |-> undefined,
   error |-> "undefined",
   parsedAddress |-> <<>>,
   parsedSubnet |-> <<>>,
   subnet |-> DefaultSubnet,
   subnetMask |-> Small(DefaultSubnetMask),
   valid |-> FALSE]

\* parse() as it would be if it declared every address valid
parse_AlwaysValid(self, address) ==
  [self |-> [self EXCEPT !.valid = TRUE], groups |-> split(address, ".")]

\* parse(address): the receiver after the call, and the groups returned
parse(self, address) ==
  [self |-> IF RE_ADDRESS(address)
            THEN [self EXCEPT !.valid = TRUE]
            ELSE [self EXCEPT !.error = "Invalid IPv4 address."],
   groups |-> split(address, ".")]

\* the constructor as it would be without the return that follows an
\* out-of-range subnet mask
Address4_NoEarlyReturn(address) ==
  LET t0 == FieldDefaults(address)
      subnet == RE_SUBNET_STRING(address)
      parsedSubnet == Tail(subnet)
      subnetMask == parseInt(parsedSubnet, 10)
      t1 == IF subnet # <<>>
            THEN [t0 EXCEPT !.parsedSubnet = parsedSubnet,
                            !.subnetMask = subnetMask,
                            !.subnet = <<"/">> \o toString(subnetMask, 10)]
            ELSE t0
      t2 == IF subnet # <<>> /\ (subnetMask.neg \/ IntOf(subnetMask) > BITS)
            THEN [t1 EXCEPT !.valid = FALSE, !.error = "Invalid subnet mask."]
            ELSE t1
      stripped == IF subnet # <<>>
                  THEN SubSeq(address, 1, Len(address) - Len(subnet))
                  ELSE address
      p == parse([t2 EXCEPT !.addressMinusSuffix = stripped], stripped)
  IN  [p.self EXCEPT !.parsedAddress = p.groups]

\* new Address4(address)
Address4(address) ==
  LET t0 == FieldDefaults(address)
      subnet == RE_SUBNET_STRING(address)
      parsedSubnet == Tail(subnet)
      subnetMask == parseInt(parsedSubnet, 10)
      t1 == IF subnet # <<>>
            THEN [t0 EXCEPT !.parsedSubnet = parsedSubnet,
                            !.subnetMask = subnetMask,
                            !.subnet = <<"/">> \o toString(subnetMask, 10)]
            ELSE t0
      stripped == IF subnet # <<>>
                  THEN SubSeq(address, 1, Len(address) - Len(subnet))
                  ELSE address
      p == parse([t1 EXCEPT !.addressMinusSuffix = stripped], stripped)
  IN  IF subnet # <<>> /\ (subnetMask.neg \/ IntOf(subnetMask) > BITS)
      THEN [t1 EXCEPT !.valid = FALSE, !.error = "Invalid subnet mask."]
      ELSE [p.self EXCEPT !.parsedAddress = p.groups]

(***************************************************************************)
(* Address4: conversions                                                   *)
(***************************************************************************)
null == [null |-> TRUE]

\* the argument of mask() when the caller gives none
noArgument == [undefined |-> TRUE]

isValid(self) == self.valid

\* this.parsedAddress.map(part => parseInt(part, 10))
toArray(self) ==
  [i \in 1..Len(self.parsedAddress) |-> parseInt(self.parsedAddress[i], 10)]

\* Array.prototype.join of an array of numbers
joinNumbers(nums, sep) == join([i \in 1..Len(nums) |-> toString(nums[i], 10)], sep)

\* correctForm() as it would be if it joined the groups as they were written
correctForm_AsWritten(self) == join(self.parsedAddress, <<".">>)

correctForm(self) == joinNumbers(toArray(self), <<".">>)

toHex(self) ==
  join([i \in 1..Len(self.parsedAddress) |->
          sprintf02x(parseInt(self.parsedAddress[i], 10))], <<":">>)

\* this.parsedAddress[i] as parseInt reads it: an index past the end gives
\* undefined, which parseInt turns into the string "undefined"
parsedGroup(self, i) ==
  IF i <= Len(self.parsedAddress) THEN self.parsedAddress[i]
  ELSE <<"u", "n", "d", "e", "f", "i", "n", "e", "d">>

toGroup6(self) ==
  LET hex(i) == sprintf02x(parseInt(parsedGroup(self, i), 10))
                  \o sprintf02x(parseInt(parsedGroup(self, i + 1), 10))
      output == [k \in 1..(GROUPS \div 2) |->
                   toString(parseInt(hex(2 * k - 1), 16), 16)]
  IN  join(output, <<":">>)

\* the hexadecimal digits bigInteger() hands to the BigInteger constructor
hexDigits(self) ==
  join([i \in 1..Len(self.parsedAddress) |->
          sprintf02x(parseInt(self.parsedAddress[i], 10))], <<>>)

bigInteger(self) ==
  IF ~self.valid THEN null ELSE BigInteger(hexDigits(self), 16)

\* fromHex() as it would be without the padding to 8 digits
fromHex_NoPadding(hex) ==
  LET padded == stripColons(hex)
      groups == [k \in 1..4 |-> parseInt(slice(padded, 2 * (k - 1), 2 * k), 16)]
  IN  Address4(joinNumbers(groups, <<".">>))

fromHex(hex) ==
  LET padded == padStart(stripColons(hex), 8, "0")
      groups == [k \in 1..4 |-> parseInt(slice(padded, 2 * (k - 1), 2 * k), 16)]
  IN  Address4(joinNumbers(groups, <<".">>))

fromInteger(integer) == fromHex(toString(integer, 16))

fromBigInteger(big) == fromInteger(parseInt(toString(big, 10), 10))

(***************************************************************************)
(* Address4: bits and subnet boundaries.  binaryZeroPad calls toString on  *)
(* the result of bigInteger(), which is null for an invalid address: every *)
(* operation below throws a TypeError on an invalid receiver.              *)
(***************************************************************************)
throwsTypeError(self) == bigInteger(self) = null

binaryZeroPad(self) == padStart(toString(bigInteger(self), 2), BITS, "0")

getBitsBase2(self, start, end) == slice(binaryZeroPad(self), start, end)

\* mask() as it would be if it ignored its argument
mask_OwnMaskOnly(self, m) == getBitsBase2(self, 0, IntOf(self.subnetMask))

mask(self, m) ==
  getBitsBase2(self, 0, IntOf(IF m = noArgument THEN self.subnetMask ELSE m))

_startAddress(self) ==
  BigInteger(mask(self, noArgument) \o repeat("0", BITS - IntOf(self.subnetMask)), 2)

\* startAddress() as it would be if the result kept the receiver's subnet
startAddress_KeepsSubnet(self) ==
  Address4(fromBigInteger(_startAddress(self)).address \o self.subnet)

startAddress(self) == fromBigInteger(_startAddress(self))

startAddressExclusive(self) == fromBigInteger(BigAdd1(_startAddress(self)))

\* _endAddress() as it would be if it filled the host bits with zeros
_endAddress_ZeroFill(self) ==
  BigInteger(mask(self, noArgument) \o repeat("0", BITS - IntOf(self.subnetMask)), 2)

_endAddress(self) ==
  BigInteger(mask(self, noArgument) \o repeat("1", BITS - IntOf(self.subnetMask)), 2)

endAddress(self) == fromBigInteger(_endAddress(self))

endAddressExclusive(self) == fromBigInteger(BigSub1(_endAddress(self)))

\* common.isInSubnet, bound to the receiver
isInSubnet(self, address) == mask(self, address.subnetMask) = mask(address, noArgument)

MulticastBlock ==
  <<"2", "2", "4", ".", "0", ".", "0", ".", "0", "/", "4">>

isMulticast(self) == isInSubnet(self, Address4(MulticastBlock))

(***************************************************************************)
(* The inputs the operations are given                                     *)
(***************************************************************************)
NumAddresses == 8

NumTokens == 3

NumIntegers == 14

MaxSuffix == 34

NumSubnets == 2

\* addresses as four octets: the edges of the range, the multicast block
\* and its neighbours, alternating bit patterns
AddressSamples ==
  << <<0, 0, 0, 0>>, <<255, 255, 255, 255>>, <<192, 168, 1, 134>>,
     <<224, 0, 0, 1>>, <<170, 85, 170, 85>>, <<239, 255, 255, 255>>,
     <<85, 170, 85, 170>>, <<240, 0, 0, 0>>, <<223, 255, 255, 255>>,
     <<10, 0, 0, 1>>, <<127, 255, 255, 255>>, <<128, 0, 0, 0>>,
     <<192, 168, 2, 50>>, <<1, 2, 3, 4>> >>

\* groups as they may be written: with and without leading zeros, out of
\* range, not a number, empty
TokenSamples ==
  << <<"0">>, <<"2", "5", "5">>, <<"0", "0", "7">>, <<"1", "0">>,
     <<"0", "0">>, <<"2", "5", "6">>, <<"1", "a">>, <<>>,
     <<"0", "9", "9">>, <<"2", "4", "9">>, <<"0", "2", "5", "5">> >>

\* integers as <<sign, high limb, low limb>>
IntegerSamples ==
  << <<FALSE, 0, 0>>, <<FALSE, 65535, 65535>>, <<FALSE, 0, 255>>,
     <<FALSE, 0, 256>>, <<FALSE, 0, 65535>>, <<FALSE, 1, 0>>,
     <<FALSE, 255, 65535>>, <<FALSE, 256, 0>>, <<FALSE, 32767, 65535>>,
     <<FALSE, 32768, 0>>, <<FALSE, 49320, 390>>, <<TRUE, 0, 1>>,
     <<FALSE, 65536, 0>>, <<FALSE, 4660, 22136>>, <<FALSE, 0, 15>>,
     <<FALSE, 0, 16>>, <<FALSE, 65534, 65535>> >>

\* the addresses of the subnets given to isInSubnet()
SubnetSamples ==
  << <<192, 168, 1, 0>>, <<170, 85, 170, 85>>, <<224, 0, 0, 0>>,
     <<255, 255, 255, 255>>, <<0, 0, 0, 0>> >>

Prefix(samples, n) == {samples[i] : i \in 1..Min(n, Len(samples))}

Dec(k) == toString(Small(k), 10)

Dotted(t) == join(<<Dec(t[1]), Dec(t[2]), Dec(t[3]), Dec(t[4])>>, <<".">>)

Addresses == {Dotted(t) : t \in Prefix(AddressSamples, NumAddresses)}

Suffixes ==
  {<<"/">> \o Dec(m) : m \in 0..MaxSuffix}
    \cup {<<"/", "0", "3", "2">>, <<"/", "0", "0">>, <<"/", "9", "9">>,
          <<"/", "1", "0", "0">>}

Tokens == Prefix(TokenSamples, NumTokens)

MalformedInputs ==
  { <<>>,
    <<"1", ".", "2", ".", "3">>,
    <<"1", ".", "2", ".", "3", ".", "4", ".", "5">>,
    <<"1", ".", "2", ".", "3", ".", "4", "/">>,
    <<"1", ".", "2", ".", "3", "/", "2", "4">>,
    <<"1", ".", "2", ".", "3", "/", "3", "3">>,
    <<"/", "2", "4">>,
    <<" ", "1", ".", "2", ".", "3", ".", "4">>,
    <<"1", ".", "2", ".", "3", ".", "-", "1">>,
    <<"1", ".", "2", ".", "3", ".", "4", "/", "8", "/", "1", "6">>,
    <<"1", ".", "2", ".", "3", ".", "4", "/", "-", "1">> }

\* the strings an Address4 is constructed from
Inputs ==
  {a \o s : a \in Addresses, s \in Suffixes \cup {<<>>}}
    \cup {join(<<t1, t2, t3, t4>>, <<".">>) : t1 \in Tokens, t2 \in Tokens,
                                             t3 \in Tokens, t4 \in Tokens}
    \cup MalformedInputs

\* the strings given to parse() after construction
ParseInputs ==
  {<<"1", ".", "2", ".", "3", ".", "4">>, <<"1", ".", "2", ".", "3">>,
   <<"2", "5", "6", ".", "0", ".", "0", ".", "0">>}

\* the subnets given to isInSubnet(): each address with every suffix
Subnets ==
  {Address4(Dotted(t) \o x) : t \in Prefix(SubnetSamples, NumSubnets),
                              x \in {<<"/">> \o Dec(m) : m \in 0..MaxSuffix} \cup {<<>>}}

Integers == {MkNum(t[1], t[2], t[3]) : t \in Prefix(IntegerSamples, NumIntegers)}

HexInputs ==
  {<<"c", "0", "a", "8", "0", "1", "8", "6">>,
   <<"c", "0", ":", "a", "8", ":", "0", "1", ":", "8", "6">>,
   <<"F", "F">>, <<>>, <<"z", "z">>,
   <<"1", "0", "0", "0", "0", "0", "0", "0", "0">>}

(***************************************************************************)
(* The state machine: an Address4 is constructed, then its operations are   *)
(* called on it one after the other (the program is single-threaded), any  *)
(* number of times, in any order.  op, arg and ret hold the call that just *)
(* returned until the caller takes the result.                             *)
(***************************************************************************)
Init ==
  /\ \E address \in Inputs :
       /\ this = Address4(address)
       /\ arg = address
  /\ op = "new"
  /\ ret = undefined
  /\ thrown = "none"

\* the caller takes the result of the call: the next call may start
Return ==
  /\ op # "none"
  /\ op' = "none"
  /\ arg' = undefined
  /\ ret' = undefined
  /\ thrown' = "none"
  /\ UNCHANGED this

\* a call that returns value and leaves the receiver alone
Returns(name, a, value) ==
  /\ op = "none"
  /\ op' = name
  /\ arg' = a
  /\ ret' = value
  /\ thrown' = "none"
  /\ UNCHANGED this

\* a call that throws instead of returning
Throws(name, a) ==
  /\ op = "none"
  /\ op' = name
  /\ arg' = a
  /\ ret' = undefined
  /\ thrown' = "TypeError"
  /\ UNCHANGED this

\* The numbers of the model have two limbs.  A receiver that parse() declared
\* valid over groups that are no octets can hold a wider value: reading its
\* bits is left out of the model.
Representable(self) == ~self.valid \/ Len(hexDigits(self)) <= 11

\* a call of an operation that reads the bits of the receiver
BitsCall(name, a, value) ==
  /\ op = "none"
  /\ Representable(this)
  /\ IF throwsTypeError(this) THEN Throws(name, a) ELSE Returns(name, a, value)

Parse ==
  \E address \in ParseInputs :
    /\ op = "none"
    /\ this' = parse(this, address).self
    /\ op' = "parse"
    /\ arg' = address
    /\ ret' = parse(this, address).groups
    /\ thrown' = "none"

IsValid == Returns("isValid", undefined, isValid(this))

CorrectForm == Returns("correctForm", undefined, correctForm(this))

ToArray == Returns("toArray", undefined, toArray(this))

ToHex == Returns("toHex", undefined, toHex(this))

ToGroup6 == Returns("toGroup6", undefined, toGroup6(this))

BigIntegerOf ==
  op = "none" /\ Representable(this) /\ Returns("bigInteger", undefined, bigInteger(this))

FromHex == \E hex \in HexInputs : Returns("fromHex", hex, fromHex(hex))

FromInteger == \E n \in Integers : Returns("fromInteger", n, fromInteger(n))

FromBigInteger == \E n \in Integers : Returns("fromBigInteger", n, fromBigInteger(n))

BinaryZeroPad == BitsCall("binaryZeroPad", undefined, binaryZeroPad(this))

GetBitsBase2 ==
  \E start \in {0, 8}, end \in {8, 16, BITS} :
    BitsCall("getBitsBase2", <<start, end>>, getBitsBase2(this, start, end))

Mask ==
  \E m \in {noArgument, Small(0), Small(4), Small(BITS)} :
    BitsCall("mask", m, mask(this, m))

StartAddress == BitsCall("startAddress", undefined, startAddress(this))

StartAddressExclusive ==
  BitsCall("startAddressExclusive", undefined, startAddressExclusive(this))

EndAddress == BitsCall("endAddress", undefined, endAddress(this))

EndAddressExclusive ==
  BitsCall("endAddressExclusive", undefined, endAddressExclusive(this))

IsInSubnet ==
  \E address \in Subnets :
    /\ op = "none"
    /\ Representable(this)
    /\ IF throwsTypeError(this) \/ throwsTypeError(address)
       THEN Throws("isInSubnet", address)
       ELSE Returns("isInSubnet", address, isInSubnet(this, address))

IsMulticast == BitsCall("isMulticast", undefined, isMulticast(this))

Next ==
  \/ Parse
  \/ IsValid
  \/ CorrectForm
  \/ ToArray
  \/ ToHex
  \/ ToGroup6
  \/ BigIntegerOf
  \/ FromHex
  \/ FromInteger
  \/ FromBigInteger
  \/ BinaryZeroPad
  \/ GetBitsBase2
  \/ Mask
  \/ StartAddress
  \/ StartAddressExclusive
  \/ EndAddress
  \/ EndAddressExclusive
  \/ IsInSubnet
  \/ IsMulticast
  \/ Return

Spec == Init /\ [][Next]_vars

(***************************************************************************)
(* What the properties speak of                                            *)
(***************************************************************************)
\* the receiver is as its constructor left it
AsConstructed(self) == self = Address4(self.address)

\* a valid address: constructed from a string the constructor accepts
ValidAddress(self) == self.valid /\ AsConstructed(self)

\* the four octets of a valid address
Octet(self, k) == IntOf(toArray(self)[k])

\* the address as an unsigned 32-bit integer, in two 16-bit halves
Value(self) ==
  [hi |-> Octet(self, 1) * 256 + Octet(self, 2),
   lo |-> Octet(self, 3) * 256 + Octet(self, 4)]

ValueLE(a, b) == a.hi < b.hi \/ (a.hi = b.hi /\ a.lo <= b.lo)

\* bit i (1..32, the leading bit first) of a valid address
Bit(self, i) == (Octet(self, (i - 1) \div 8 + 1) \div 2 ^ (7 - ((i - 1) % 8))) % 2

\* the bits i..j of a valid address
Bits(self, i, j) == [k \in 1..(j - i + 1) |-> Bit(self, i + k - 1)]

Ones(n) == [k \in 1..n |-> 1]

Zeros(n) == [k \in 1..n |-> 0]

MaskBits(self) == IntOf(self.subnetMask)

\* the string is four groups of one to three decimal digits, each of value
\* 0..255, separated by periods, with no subnet suffix
IsDottedDecimal(address) ==
  \E a, b, c, d \in Tokens :
    /\ address = join(<<a, b, c, d>>, <<".">>)
    /\ \A t \in {a, b, c, d} :
         /\ Len(t) \in 1..3
         /\ \A i \in 1..Len(t) : t[i] \in {"0", "1", "2", "3", "4", "5", "6", "7", "8", "9"}
         /\ digitsValue(t, 10) <= 255

\* the groups of a dotted-decimal string in base 10 without leading zeros
Canonical(address) ==
  LET g == split(address, ".")
  IN  join([i \in 1..Len(g) |-> Dec(digitsValue(g[i], 10))], <<".">>)

\* the number a subnet suffix "/<digits>" at the end of the string denotes,
\* or -1 when the string has no such suffix
SuffixNumber(address) ==
  LET starts == {i \in 1..(Len(address) - 1) :
                   /\ address[i] = "/"
                   /\ \A j \in (i + 1)..Len(address) :
                        address[j] \in {"0", "1", "2", "3", "4", "5", "6", "7", "8", "9"}}
  IN  IF starts = {} THEN -1
      ELSE LET i == CHOOSE k \in starts : TRUE
           IN  digitsValue(SubSeq(address, i + 1, Len(address)), 10)

DerivedOps ==
  {"fromHex", "fromInteger", "fromBigInteger", "startAddress", "endAddress",
   "startAddressExclusive", "endAddressExclusive"}

(***************************************************************************)
(* C1                                                                      *)
(***************************************************************************)
\* C1: for every valid address with every mask in 0..32, startAddress() <=
\* the address <= endAddress() as unsigned 32-bit integers,
\* startAddressExclusive() is exactly the address of value startAddress()+1
\* and endAddressExclusive() exactly the address of value endAddress()-1,
\* with no overflow, underflow, truncation or crash.
C1_BoundaryArithmeticExact ==
  (ValidAddress(this) /\ op \in DerivedOps) =>
    /\ thrown = "none"
    /\ op = "startAddress" => ValueLE(Value(ret), Value(this))
    /\ op = "endAddress" => ValueLE(Value(this), Value(ret))
    /\ op = "startAddressExclusive" =>
         /\ ret.valid
         /\ LET start == Value(startAddress(this))
                next == MagAdd1(MkNum(FALSE, start.hi, start.lo))
            IN  Value(ret) = [hi |-> next.hi, lo |-> next.lo]
    /\ op = "endAddressExclusive" =>
         /\ ret.valid
         /\ LET end == Value(endAddress(this))
            IN  /\ ~(end.hi = 0 /\ end.lo = 0)
                /\ LET prev == MagSub1(MkNum(FALSE, end.hi, end.lo))
                   IN  Value(ret) = [hi |-> prev.hi, lo |-> prev.lo]

(***************************************************************************)
(* C2                                                                      *)
(***************************************************************************)
\* C2: for every integer n in [0, 2^32 - 1], fromInteger(n) is a valid
\* address and fromInteger(n).toArray() is the big-endian decomposition of
\* n into four bytes.
C2_FromIntegerBytes ==
  (op = "fromInteger" /\ ~arg.neg /\ arg.hi < LimbBase) =>
    /\ ret.valid
    /\ toArray(ret) = <<Small(arg.hi \div 256), Small(arg.hi % 256),
                        Small(arg.lo \div 256), Small(arg.lo % 256)>>

C2_Witness ==
  /\ op = "fromInteger"
  /\ arg = MkNum(FALSE, 65535, 65535)
  /\ ret.valid
  /\ toArray(ret) = <<Small(255), Small(255), Small(255), Small(255)>>

(***************************************************************************)
(* C3                                                                      *)
(***************************************************************************)
\* C3: an address constructed from four period-separated groups of one to
\* three decimal digits of value 0..255 is valid, its correctForm() is the
\* groups in base 10 without leading zeros joined by ".", and an address
\* constructed from that correctForm() is valid with the same toArray().
C3_CorrectFormCanonical ==
  /\ (op = "new" /\ IsDottedDecimal(arg)) =>
       /\ isValid(this)
       /\ this.error = "undefined"
  /\ (op = "correctForm" /\ IsDottedDecimal(this.address)) =>
       /\ isValid(this)
       /\ ret = Canonical(this.address)
       /\ isValid(Address4(ret))
       /\ toArray(Address4(ret)) = toArray(this)

C3_Witness ==
  /\ op = "correctForm"
  /\ this.address = <<"0", "0", "7", ".", "2", "5", "5", ".", "0", ".", "0", "0", "7">>
  /\ this.valid
  /\ ret = <<"7", ".", "2", "5", "5", ".", "0", ".", "7">>

(***************************************************************************)
(* C4                                                                      *)
(***************************************************************************)
\* C4: constructing an address from an input whose subnet suffix denotes a
\* number outside [0, 32] does not throw and leaves isValid() false, the
\* error "Invalid subnet mask.", the subnet label "/<N>", the parsed groups
\* empty and the suffix-free address unset.
C4_InvalidSubnetMask ==
  (op = "new" /\ SuffixNumber(arg) > BITS) =>
    /\ thrown = "none"
    /\ ~isValid(this)
    /\ this.error = "Invalid subnet mask."
    /\ this.subnet = <<"/">> \o Dec(SuffixNumber(arg))
    /\ this.parsedAddress = <<>>
    /\ this.addressMinusSuffix = undefined

C4_Witness ==
  /\ op = "new"
  /\ arg = <<"1", "9", "2", ".", "1", "6", "8", ".", "1", ".", "1", "3", "4", "/", "3", "3">>
  /\ this.error = "Invalid subnet mask."
  /\ this.subnet = <<"/", "3", "3">>
  /\ this.parsedAddress = <<>>

(***************************************************************************)
(* C5                                                                      *)
(***************************************************************************)
\* C5: in every reachable state of an Address4, after construction and after
\* any sequence of its operations, parse included, the error message is set
\* exactly when isValid is false, and when set it is "Invalid subnet mask."
\* or "Invalid IPv4 address.".
C5_ErrorSetIffInvalid ==
  /\ (this.error # "undefined") <=> ~this.valid
  /\ this.error \in {"undefined", "Invalid subnet mask.", "Invalid IPv4 address."}

C8_FieldsNeverChange == [][this' = this]_vars

(***************************************************************************)
(* C9                                                                      *)
(***************************************************************************)
\* C9: for every valid address with mask m, startAddress() is the valid
\* address whose bits are the leading m bits of the address followed by
\* 32 - m zeros, and endAddress() the one whose bits are the same leading m
\* bits followed by 32 - m ones.
C9_NetworkAndBroadcast ==
  /\ (op = "startAddress" /\ ValidAddress(this)) =>
       /\ thrown = "none"
       /\ ret.valid
       /\ Bits(ret, 1, BITS) = Bits(this, 1, MaskBits(this)) \o Zeros(BITS - MaskBits(this))
  /\ (op = "endAddress" /\ ValidAddress(this)) =>
       /\ thrown = "none"
       /\ ret.valid
       /\ Bits(ret, 1, BITS) = Bits(this, 1, MaskBits(this)) \o Ones(BITS - MaskBits(this))

C9_Witness ==
  /\ op = "endAddress"
  /\ this.address = <<"1", "9", "2", ".", "1", "6", "8", ".", "1", ".", "1", "3", "4", "/", "2", "6">>
  /\ ret.valid
  /\ correctForm(ret) = <<"1", "9", "2", ".", "1", "6", "8", ".", "1", ".", "1", "9", "1">>

(***************************************************************************)
(* C10                                                                     *)
(***************************************************************************)
\* C10: every address the factories and the boundary operations return has
\* the subnet mask 32 and the subnet label "/32", whatever the mask of the
\* receiver; so startAddress() and endAddress() of a.startAddress() are both
\* a.startAddress() itself.
C10_DerivedMaskIs32 ==
  (op \in DerivedOps /\ thrown = "none") =>
    /\ ret.subnetMask = Small(32)
    /\ ret.subnet = <<"/", "3", "2">>
    /\ (op = "startAddress" /\ ValidAddress(this)) =>
         /\ startAddress(ret) = ret
         /\ endAddress(ret) = ret

C10_Witness ==
  /\ op = "startAddress"
  /\ this.address = <<"1", "9", "2", ".", "1", "6", "8", ".", "1", ".", "1", "3", "4", "/", "2", "6">>
  /\ MaskBits(this) = 26
  /\ ret.address = <<"1", "9", "2", ".", "1", "6", "8", ".", "1", ".", "1", "2", "8">>
  /\ ret.subnetMask = Small(32)

====
